---- MODULE Spec2Model ----
(***************************************************************************)
(* Model of netlify/functions/pix-backend-function.js: the PIX deposit     *)
(* proxy handler and its process-wide bearer-token cache.                  *)
(*                                                                         *)
(* JavaScript values are written as the text of their literal ("0",        *)
(* "null", "\"\"" ...); Undef is the value of a property that is absent.   *)
(* A JSON object is a function from its keys to such values.  The clock    *)
(* counts minutes.  Every await of the source is a point where another     *)
(* invocation may run, so each action below is one synchronous run of the  *)
(* code between two awaits whose outcome depends on the network.           *)
(***************************************************************************)
EXTENDS Integers, Sequences, FiniteSets, TLC

\* ---------------------------------------------------------------- bounds
NumInv == 2
MaxTicks == 2

Invs == 1..NumInv

\* ------------------------------------------------------------- JS values
Undef == "undefined"
Null == "null"

Falsy == {Undef, Null, "false", "0", "\"\""}

Truthy(v) == v \notin Falsy

EmptyObj == [k \in {} |-> Undef]

\* o.k for an object o: undefined when the property is absent
Get(o, k) == IF k \in DOMAIN o THEN o[k] ELSE Undef

\* a || b
Or(a, b) == IF Truthy(a) THEN a ELSE b

\* JSON.stringify(obj): properties whose value is undefined are omitted
Stringify(obj) ==
    [kind |-> "json",
     doc |-> [k \in {x \in DOMAIN obj : obj[x] # Undef} |-> obj[k]]]

\* the keys of the provider's objects, in the order they are written
KeyOrder ==
    <<"transaction_id", "qr_code_image", "pix_code", "status", "fee",
      "error", "message">>

RECURSIVE JsonMembers(_, _)
JsonMembers(o, n) ==
    IF n > Len(KeyOrder) THEN ""
    ELSE IF KeyOrder[n] \in DOMAIN o /\ o[KeyOrder[n]] # Undef
         THEN KeyOrder[n] \o ":" \o o[KeyOrder[n]] \o ";" \o JsonMembers(o, n + 1)
         ELSE JsonMembers(o, n + 1)

\* JSON.stringify of a nested object: its text
JsonText(o) == "{" \o JsonMembers(o, 1) \o "}"

EmptyBody == [kind |-> "empty", doc |-> EmptyObj]

\* JSON.parse / response.json(): a text that is not JSON throws, the text
\* null parses to null, an object text parses to the object
ParseJson_Lenient(raw) ==
    CASE raw.kind = "null" -> [ok |-> TRUE, isNull |-> TRUE, obj |-> EmptyObj]
      [] OTHER -> [ok |-> TRUE, isNull |-> FALSE, obj |-> raw.obj]

ParseJson(raw) ==
    CASE raw.kind = "text" -> [ok |-> FALSE, isNull |-> FALSE, obj |-> EmptyObj]
      [] raw.kind = "null" -> [ok |-> TRUE, isNull |-> TRUE, obj |-> EmptyObj]
      [] OTHER -> [ok |-> TRUE, isNull |-> FALSE, obj |-> raw.obj]

TextRaw == [kind |-> "text", obj |-> EmptyObj]
NullRaw == [kind |-> "null", obj |-> EmptyObj]
ObjRaw(o) == [kind |-> "object", obj |-> o]

\* ------------------------------------------------------------- constants
TokenTTL == 55

CorsHeaders ==
    [ct |-> "application/json", origin |-> "*",
     methods |-> "POST, OPTIONS", allowHeaders |-> "Content-Type"]

NoHeaders == EmptyObj

MsgMethod == "Metodo nao permitido. Use POST."
MsgIncomplete == "Dados incompletos. Requer: amount, external_id e payer."
MsgInternal == "Erro interno do servidor ao processar PIX."
MsgUnknown == "Erro desconhecido ao criar deposito na Instapay."
MsgNoCreds == "Credenciais da Instapay nao configuradas"
MsgAuthFail == "Falha na autenticacao"
MsgNoToken == "Resposta de autenticacao nao contem token JWT."
MsgNotJson == "Resposta da API de Deposito nao e JSON"
MsgBodyParse == "SyntaxError: JSON.parse(event.body)"
MsgBodyNull == "TypeError: cannot destructure null"
MsgLoginNet == "FetchError: login"
MsgLoginJson == "SyntaxError: login response.json()"
MsgLoginNull == "TypeError: login data is null"
MsgDepositNet == "FetchError: deposit"
MsgBodyUsed == "TypeError: body used already"
MsgDepositNull == "TypeError: depositData is null"

\* ---------------------------------------------------------------- inputs
ValidBody ==
    ObjRaw([amount |-> "10", external_id |-> "\"e1\"", payer |-> "{doc}"])

Bodies ==
    { ValidBody,
      TextRaw,
      NullRaw,
      ObjRaw(EmptyObj),
      ObjRaw([amount |-> "0", external_id |-> "\"e1\"", payer |-> "{doc}"]),
      ObjRaw([amount |-> "10", payer |-> "{doc}"]),
      ObjRaw([amount |-> "10", external_id |-> "\"e1\"", payer |-> Null]) }

Methods == {"POST", "OPTIONS", "GET"}

\* the events the handler is called with: every body under POST, a valid
\* body under the other methods, and an unparseable one under OPTIONS
Events ==
    [httpMethod : {"POST"}, body : Bodies]
        \cup [httpMethod : Methods, body : {ValidBody}]
        \cup [httpMethod : {"OPTIONS"}, body : {TextRaw}]

Jwt(n) == "jwt" \o ToString(n)

AltJwt(n) == "alt" \o ToString(n)

Answer(st, raw) == [status |-> st, raw |-> raw]

\* what the login endpoint may answer; n numbers the token it mints
LoginAnswers(n) ==
    { Answer(401, TextRaw),
      Answer(200, TextRaw),
      Answer(200, NullRaw),
      Answer(200, ObjRaw(EmptyObj)),
      Answer(200, ObjRaw([token |-> Jwt(n)])),
      Answer(201, ObjRaw([access_token |-> Jwt(n)])),
      Answer(200, ObjRaw([token |-> "\"\"", access_token |-> Jwt(n)])),
      Answer(200, ObjRaw([token |-> Jwt(n), access_token |-> AltJwt(n)])) }

PixFull ==
    [transaction_id |-> "\"tx1\"", qr_code_image |-> "\"png\"",
     pix_code |-> "\"0002\"", status |-> "\"pending\"", fee |-> "3"]

\* what the deposit endpoint may answer
DepositAnswers ==
    { Answer(201, ObjRaw(PixFull)),
      Answer(200, ObjRaw([transaction_id |-> "\"tx1\"", qr_code_image |-> "\"png\"",
                          pix_code |-> "\"0002\""])),
      Answer(200, NullRaw),
      Answer(200, TextRaw),
      Answer(402, ObjRaw([error |-> "\"insufficient_funds\""])),
      Answer(402, ObjRaw([error |-> "\"\"", message |-> "\"denied\""])),
      Answer(500, ObjRaw(EmptyObj)),
      Answer(402, NullRaw),
      Answer(502, TextRaw) }

\* response.ok
Ok(status) == status >= 200 /\ status <= 299

\* ----------------------------------------------------------------- state
VARIABLES
    CLIENT_ID,      \* process.env.INSTAPAY_CLIENT_ID, read once
    CLIENT_SECRET,  \* process.env.INSTAPAY_CLIENT_SECRET, read once
    cachedToken,    \* module-level cache: token or Null
    tokenExpiry,    \* module-level cache: minute of expiry, or -1 for null
    now,            \* the clock (new Date(), Date.now())
    ticks,          \* clock advances taken
    nextLogin,      \* number the provider gives its next login answer
    pc,             \* where each invocation is suspended
    event,          \* the event each invocation was called with
    token,          \* the handler's local const token
    response,       \* what the invocation returned
    thrown,         \* message of the exception caught, or Undef
    logins,         \* login fetches issued by the invocation
    deposits,       \* deposit fetches issued by the invocation
    bearer,         \* Authorization token of the invocation's deposit fetch
    cold,           \* authenticate() found no valid cached token
    loginToken,     \* token the invocation's own login produced
    depositAnswer,  \* status and body the deposit endpoint answered with
    loginAnswer     \* the login answer the step just taken processed, if any

vars == <<CLIENT_ID, CLIENT_SECRET, cachedToken, tokenExpiry, now, ticks,
          nextLogin, pc, event, token, response, thrown, logins, deposits,
          bearer, cold, loginToken, depositAnswer, loginAnswer>>

NoExpiry == -1

NoEvent == [httpMethod |-> "none", body |-> TextRaw]

NoAnswer == Answer(0, TextRaw)

NoResponse == [statusCode |-> 0, headers |-> NoHeaders, body |-> EmptyBody]

\* ------------------------------------------------------------------ code
\* authenticate(), step 1: the cached token is still valid at time t
CacheValid_Inclusive(tok, exp, t) == Truthy(tok) /\ exp # NoExpiry /\ t <= exp

CacheValid(tok, exp, t) == Truthy(tok) /\ exp # NoExpiry /\ t < exp

\* authenticate(), step 2: both credentials are configured
CredsConfigured_Always(id, secret) == TRUE

CredsConfigured_IdOnly(id, secret) == Truthy(id)

CredsConfigured(id, secret) == Truthy(id) /\ Truthy(secret)

\* authenticate(): const token = data.token || data.access_token
PickToken_AccessFirst(data) == Or(Get(data, "access_token"), Get(data, "token"))

PickToken(data) == Or(Get(data, "token"), Get(data, "access_token"))

\* authenticate(): if (!token)
NoToken_Never(tok) == FALSE

NoToken_OnlyNull(tok) == tok = Null

NoToken(tok) == ~Truthy(tok)

\* authenticate(), step 5: cachedToken = token
CacheWrite_KeepFirst(old, tok) == IF Truthy(old) THEN old ELSE tok

CacheWrite(old, tok) == tok

\* authenticate(), step 5: tokenExpiry = new Date(Date.now() + 55 * 60 * 1000)
Expiry_FromZero(t) == TokenTTL

Expiry(t) == t + TokenTTL

\* handler: if (!amount || !external_id || !payer)
Incomplete(o) ==
    \/ ~Truthy(Get(o, "amount"))
    \/ ~Truthy(Get(o, "external_id"))
    \/ ~Truthy(Get(o, "payer"))

\* the 405 returned before the CORS headers are built
MethodNotAllowed_Status400 ==
    [statusCode |-> 400, headers |-> NoHeaders,
     body |-> Stringify([error |-> MsgMethod])]

MethodNotAllowed_EmptyBody ==
    [statusCode |-> 405, headers |-> NoHeaders, body |-> EmptyBody]

MethodNotAllowed ==
    [statusCode |-> 405, headers |-> NoHeaders,
     body |-> Stringify([error |-> MsgMethod])]

Preflight == [statusCode |-> 200, headers |-> CorsHeaders, body |-> EmptyBody]

BadRequest ==
    [statusCode |-> 400, headers |-> CorsHeaders,
     body |-> Stringify([error |-> MsgIncomplete])]

\* the outer catch block
InternalError_NoDetails(msg) ==
    [statusCode |-> 500, headers |-> CorsHeaders,
     body |-> Stringify([error |-> MsgInternal])]

InternalError(msg) ==
    [statusCode |-> 500, headers |-> CorsHeaders,
     body |-> Stringify([error |-> MsgInternal, details |-> msg])]

\* if (!depositResponse.ok): the provider's status and error are forwarded
Forwarded(status, d) ==
    [statusCode |-> status, headers |-> CorsHeaders,
     body |-> Stringify(
        [error |-> Or(Get(d, "error"), Or(Get(d, "message"), MsgUnknown)),
         details |-> JsonText(d)])]

\* the success response: four fields picked from the provider's answer
Success_PassThrough(d) ==
    [statusCode |-> 200, headers |-> CorsHeaders, body |-> Stringify(d)]

Success(d) ==
    [statusCode |-> 200, headers |-> CorsHeaders,
     body |-> Stringify(
        [transaction_id |-> Get(d, "transaction_id"),
         qr_code_image |-> Get(d, "qr_code_image"),
         pix_code |-> Get(d, "pix_code"),
         status |-> Get(d, "status")])]

\* --------------------------------------------------------------- initial
Init ==
    /\ CLIENT_ID \in {Undef, "\"id\""}
    /\ CLIENT_SECRET \in {Undef, "\"secret\""}
    /\ cachedToken = Null
    /\ tokenExpiry = NoExpiry
    /\ now = 0
    /\ ticks = 0
    /\ nextLogin = 1
    /\ pc = [i \in Invs |-> "idle"]
    /\ event = [i \in Invs |-> NoEvent]
    /\ token = [i \in Invs |-> Null]
    /\ response = [i \in Invs |-> NoResponse]
    /\ thrown = [i \in Invs |-> Undef]
    /\ logins = [i \in Invs |-> 0]
    /\ deposits = [i \in Invs |-> 0]
    /\ bearer = [i \in Invs |-> Null]
    /\ cold = [i \in Invs |-> FALSE]
    /\ loginToken = [i \in Invs |-> Null]
    /\ depositAnswer = [i \in Invs |-> NoAnswer]
    /\ loginAnswer = NoAnswer

\* the invocation returns r
Return(i, r) ==
    /\ pc' = [pc EXCEPT ![i] = "done"]
    /\ response' = [response EXCEPT ![i] = r]
    /\ thrown' = thrown

\* an exception with message msg reaches the outer catch
Throw_Retry(i, msg) ==
    /\ pc' = [pc EXCEPT ![i] = "idle"]
    /\ response' = response
    /\ thrown' = [thrown EXCEPT ![i] = msg]

Throw(i, msg) ==
    /\ pc' = [pc EXCEPT ![i] = "done"]
    /\ response' = [response EXCEPT ![i] = InternalError(msg)]
    /\ thrown' = [thrown EXCEPT ![i] = msg]

\* the handler is called with ev and runs to its first await or return
Invoke(i, ev) ==
    /\ pc[i] = "idle"
    /\ \A j \in Invs : j < i => pc[j] # "idle"
    /\ event' = [event EXCEPT ![i] = ev]
    /\ loginAnswer' = NoAnswer
    /\ UNCHANGED <<CLIENT_ID, CLIENT_SECRET, cachedToken, tokenExpiry, now,
                   ticks, nextLogin, deposits, bearer, loginToken,
                   depositAnswer>>
    /\ LET parsed == ParseJson(ev.body) IN
       IF ev.httpMethod # "POST" THEN
            /\ Return(i, MethodNotAllowed)
            /\ UNCHANGED <<token, logins, cold>>
       ELSE IF ev.httpMethod = "OPTIONS" THEN
            /\ Return(i, Preflight)
            /\ UNCHANGED <<token, logins, cold>>
       ELSE IF ~parsed.ok THEN
            /\ Throw(i, MsgBodyParse)
            /\ UNCHANGED <<token, logins, cold>>
       ELSE IF parsed.isNull THEN
            /\ Throw(i, MsgBodyNull)
            /\ UNCHANGED <<token, logins, cold>>
       ELSE IF Incomplete(parsed.obj) THEN
            /\ Return(i, BadRequest)
            /\ UNCHANGED <<token, logins, cold>>
       ELSE IF CacheValid(cachedToken, tokenExpiry, now) THEN
            /\ pc' = [pc EXCEPT ![i] = "authenticated"]
            /\ token' = [token EXCEPT ![i] = cachedToken]
            /\ UNCHANGED <<response, thrown, logins, cold>>
       ELSE IF ~CredsConfigured(CLIENT_ID, CLIENT_SECRET) THEN
            /\ Throw(i, MsgNoCreds)
            /\ cold' = [cold EXCEPT ![i] = TRUE]
            /\ UNCHANGED <<token, logins>>
       ELSE
            /\ pc' = [pc EXCEPT ![i] = "login"]
            /\ logins' = [logins EXCEPT ![i] = @ + 1]
            /\ cold' = [cold EXCEPT ![i] = TRUE]
            /\ UNCHANGED <<token, response, thrown>>

\* the login fetch rejects: the error leaves authenticate() and is caught
LoginFails(i) ==
    /\ pc[i] = "login"
    /\ Throw(i, MsgLoginNet)
    /\ loginAnswer' = NoAnswer
    /\ UNCHANGED <<CLIENT_ID, CLIENT_SECRET, cachedToken, tokenExpiry, now,
                   ticks, nextLogin, event, token, logins, deposits, bearer,
                   cold, loginToken, depositAnswer>>

\* the login endpoint answers: authenticate() runs from step 4 to its end
LoginResponds(i, ans) ==
    /\ pc[i] = "login"
    /\ nextLogin' = IF ans.raw.kind = "object" /\ ans.raw.obj # EmptyObj
                     THEN nextLogin + 1 ELSE nextLogin
    /\ UNCHANGED <<CLIENT_ID, CLIENT_SECRET, now, ticks, event, logins,
                   deposits, bearer, cold, depositAnswer>>
    /\ loginAnswer' = ans
    /\ LET data == ParseJson(ans.raw)
           tok == PickToken(data.obj) IN
       IF ~Ok(ans.status) THEN
            /\ Throw(i, MsgAuthFail)
            /\ UNCHANGED <<cachedToken, tokenExpiry, token, loginToken>>
       ELSE IF ~data.ok THEN
            /\ Throw(i, MsgLoginJson)
            /\ UNCHANGED <<cachedToken, tokenExpiry, token, loginToken>>
       ELSE IF data.isNull THEN
            /\ Throw(i, MsgLoginNull)
            /\ UNCHANGED <<cachedToken, tokenExpiry, token, loginToken>>
       ELSE IF NoToken(tok) THEN
            /\ Throw(i, MsgNoToken)
            /\ UNCHANGED <<cachedToken, tokenExpiry, token, loginToken>>
       ELSE
            /\ cachedToken' = CacheWrite(cachedToken, tok)
            /\ tokenExpiry' = Expiry(now)
            /\ token' = [token EXCEPT ![i] = cachedToken']
            /\ loginToken' = [loginToken EXCEPT ![i] = tok]
            /\ pc' = [pc EXCEPT ![i] = "authenticated"]
            /\ UNCHANGED <<response, thrown>>

\* await authenticate() resumes the handler, which issues the deposit fetch
SendDeposit(i) ==
    /\ pc[i] = "authenticated"
    /\ pc' = [pc EXCEPT ![i] = "deposit"]
    /\ deposits' = [deposits EXCEPT ![i] = @ + 1]
    /\ bearer' = [bearer EXCEPT ![i] = token[i]]
    /\ loginAnswer' = NoAnswer
    /\ UNCHANGED <<CLIENT_ID, CLIENT_SECRET, cachedToken, tokenExpiry, now,
                   ticks, nextLogin, event, token, response, thrown, logins,
                   cold, loginToken, depositAnswer>>

\* the deposit fetch rejects
DepositFails(i) ==
    /\ pc[i] = "deposit"
    /\ Throw(i, MsgDepositNet)
    /\ loginAnswer' = NoAnswer
    /\ UNCHANGED <<CLIENT_ID, CLIENT_SECRET, cachedToken, tokenExpiry, now,
                   ticks, nextLogin, event, token, logins, deposits, bearer,
                   cold, loginToken, depositAnswer>>

\* the deposit endpoint answers: the handler runs from step 4 to its return.
\* After a failed json() the body is read again with text(), which either
\* rejects because the body was consumed or yields the text for the message.
DepositResponds(i, ans, textRejects) ==
    /\ pc[i] = "deposit"
    /\ depositAnswer' = [depositAnswer EXCEPT ![i] = ans]
    /\ loginAnswer' = NoAnswer
    /\ UNCHANGED <<CLIENT_ID, CLIENT_SECRET, cachedToken, tokenExpiry, now,
                   ticks, nextLogin, event, token, logins, deposits, bearer,
                   cold, loginToken>>
    /\ LET depositData == ParseJson(ans.raw) IN
       IF ~depositData.ok THEN
            Throw(i, IF textRejects THEN MsgBodyUsed ELSE MsgNotJson)
       ELSE IF depositData.isNull THEN
            Throw(i, MsgDepositNull)
       ELSE IF ~Ok(ans.status) THEN
            Return(i, Forwarded(ans.status, depositData.obj))
       ELSE
            Return(i, Success(depositData.obj))

\* time passes
TickSteps == {1, TokenTTL - 1}

Tick(d) ==
    /\ ticks < MaxTicks
    /\ ticks' = ticks + 1
    /\ now' = now + d
    /\ loginAnswer' = NoAnswer
    /\ UNCHANGED <<CLIENT_ID, CLIENT_SECRET, cachedToken, tokenExpiry,
                   nextLogin, pc, event, token, response, thrown, logins,
                   deposits, bearer, cold, loginToken, depositAnswer>>

Next ==
    \/ \E i \in Invs, ev \in Events : Invoke(i, ev)
    \/ \E i \in Invs : LoginFails(i)
    \/ \E i \in Invs, ans \in LoginAnswers(nextLogin) : LoginResponds(i, ans)
    \/ \E i \in Invs : SendDeposit(i)
    \/ \E i \in Invs : DepositFails(i)
    \/ \E i \in Invs, ans \in DepositAnswers, textRejects \in BOOLEAN :
            DepositResponds(i, ans, textRejects)
    \/ \E d \in TickSteps : Tick(d)

Spec == Init /\ [][Next]_vars

\* every fetch settles (it resolves or rejects) and every settled promise has
\* its continuation run by the event loop
LoginSettles(i) ==
    LoginFails(i) \/ \E ans \in LoginAnswers(nextLogin) : LoginResponds(i, ans)

DepositSettles(i) ==
    \/ DepositFails(i)
    \/ \E ans \in DepositAnswers, textRejects \in BOOLEAN :
            DepositResponds(i, ans, textRejects)

FairSpec ==
    /\ Spec
    /\ \A i \in Invs :
            /\ WF_vars(LoginSettles(i))
            /\ WF_vars(SendDeposit(i))
            /\ WF_vars(DepositSettles(i))

\* ---------------------------------------------------------------- claims
Done(i) == pc[i] = "done"

IsJsonWith(body, keys) == body.kind = "json" /\ keys \subseteq DOMAIN body.doc

\* a POST whose body parses to an object with three truthy fields
ValidPost(ev) ==
    /\ ev.httpMethod = "POST"
    /\ ev.body.kind = "object"
    /\ Get(ev.body.obj, "amount") \notin Falsy
    /\ Get(ev.body.obj, "external_id") \notin Falsy
    /\ Get(ev.body.obj, "payer") \notin Falsy

\* C1: an OPTIONS invocation is answered 200 with an empty body and the four
\* CORS headers, and issues neither a login nor a deposit request.
C1_OptionsPreflight ==
    \A i \in Invs :
        Done(i) /\ event[i].httpMethod = "OPTIONS" =>
            /\ response[i].statusCode = 200
            /\ response[i].body.kind = "empty"
            /\ DOMAIN response[i].headers = {"ct", "origin", "methods", "allowHeaders"}
            /\ logins[i] = 0
            /\ deposits[i] = 0

\* C2: every response returned carries the fixed CORS header set.
C2_CorsOnEveryResponse ==
    \A i \in Invs :
        Done(i) =>
            response[i].headers =
                [ct |-> "application/json", origin |-> "*",
                 methods |-> "POST, OPTIONS", allowHeaders |-> "Content-Type"]

\* C3: an invocation whose method is neither POST nor OPTIONS returns 405
\* with a JSON error body at once, issues no login and no deposit request,
\* then or later, and leaves the token cache as it was.
C3_OtherMethodIs405 ==
    [][\A i \in Invs :
        /\ (pc[i] = "idle" /\ pc'[i] # "idle"
                /\ event'[i].httpMethod \notin {"POST", "OPTIONS"}) =>
              /\ pc'[i] = "done"
              /\ response'[i].statusCode = 405
              /\ IsJsonWith(response'[i].body, {"error"})
              /\ cachedToken' = cachedToken
              /\ tokenExpiry' = tokenExpiry
        /\ event'[i].httpMethod \notin {"POST", "OPTIONS", "none"} =>
              /\ logins'[i] = 0
              /\ deposits'[i] = 0
              /\ pc'[i] = "done"]_vars

C3_Witness ==
    \E i \in Invs :
        /\ Done(i)
        /\ event[i].httpMethod = "GET"
        /\ response[i].statusCode = 405
        /\ cachedToken # Null

\* C4: a POST whose body is JSON but lacks amount, external_id or payer is
\* answered 400 with an error field, issues no login and no deposit request
\* and leaves the token cache as it was.
C4_IncompleteBodyIs400 ==
    [][\A i \in Invs :
        (pc[i] = "idle" /\ pc'[i] # "idle"
            /\ event'[i].httpMethod = "POST"
            /\ event'[i].body.kind \in {"null", "object"}
            /\ \E k \in {"amount", "external_id", "payer"} :
                    Get(event'[i].body.obj, k) \in Falsy) =>
          /\ pc'[i] = "done"
          /\ response'[i].statusCode = 400
          /\ IsJsonWith(response'[i].body, {"error"})
          /\ logins'[i] = 0
          /\ deposits'[i] = 0
          /\ cachedToken' = cachedToken
          /\ tokenExpiry' = tokenExpiry]_vars

\* the handler of i is called in this step, with a valid POST
StartsValid(i) == pc[i] = "idle" /\ pc'[i] # "idle" /\ ValidPost(event'[i])

\* the cache holds a token whose expiry is strictly after the current time
Fresh == cachedToken \notin Falsy /\ tokenExpiry # NoExpiry /\ now < tokenExpiry

\* C5: a valid POST handled while the cache holds a token whose expiry is
\* strictly after the current time issues no login request and puts the
\* cached token on its deposit request; one handled when the current time is
\* at or after the expiry is never handed the cached token: it gets a token
\* only from a login of its own.
C5_CacheReuseWindow ==
    [][\A i \in Invs :
        /\ StartsValid(i) /\ Fresh =>
              /\ pc'[i] = "authenticated"
              /\ token'[i] = cachedToken
              /\ logins'[i] = 0
        /\ StartsValid(i) /\ ~Fresh =>
              /\ pc'[i] \in {"login", "done"}
              /\ token'[i] = Null
        /\ (pc[i] = "authenticated" /\ logins[i] = 0) =>
              /\ logins'[i] = 0
              /\ pc'[i] # "authenticated" => bearer'[i] = token[i]
        /\ (pc[i] \in {"deposit", "done"} /\ logins[i] = 0) => logins'[i] = 0
        /\ (pc[i] = "login" /\ pc'[i] = "authenticated") => token'[i] = loginToken'[i]
      ]_vars

C5_Witness ==
    \E i, j \in Invs :
        /\ ~cold[i]
        /\ logins[i] = 0
        /\ deposits[i] = 1
        /\ bearer[i] = loginToken[j]
        /\ bearer[i] \notin Falsy
        /\ now = tokenExpiry - 1

CredsPresent == CLIENT_ID \notin Falsy /\ CLIENT_SECRET \notin Falsy

Answered(i) == depositAnswer[i].status # 0

\* C7: a non-success deposit status with a JSON body is returned as that same
\* status, with error the provider's error, else its message, else the
\* default text, and the provider's body under details.
C7_ProviderErrorForwarded ==
    \A i \in Invs :
        (Done(i) /\ Answered(i) /\ ~Ok(depositAnswer[i].status)
            /\ depositAnswer[i].raw.kind \in {"null", "object"}) =>
          LET d == depositAnswer[i].raw.obj IN
          /\ response[i].statusCode = depositAnswer[i].status
          /\ IsJsonWith(response[i].body, {"error", "details"})
          /\ response[i].body.doc.error =
                IF Get(d, "error") \notin Falsy THEN d.error
                ELSE IF Get(d, "message") \notin Falsy THEN d.message
                ELSE MsgUnknown

FourFields == {"transaction_id", "qr_code_image", "pix_code", "status"}

\* C8 as stated, for a JSON body that is an object: a success deposit status
\* is returned as 200 with exactly the four fields, each the provider's value.
C8_ExactlyFourFields ==
    \A i \in Invs :
        (Done(i) /\ Answered(i) /\ Ok(depositAnswer[i].status)
            /\ depositAnswer[i].raw.kind = "object") =>
          /\ response[i].statusCode = 200
          /\ response[i].body.kind = "json"
          /\ DOMAIN response[i].body.doc = FourFields
          /\ \A k \in FourFields :
                response[i].body.doc[k] = Get(depositAnswer[i].raw.obj, k)

\* C8 amended: a success deposit status with a JSON object body is returned
\* as 200 whose body holds, of the four fields, exactly those the provider's
\* object has, each the provider's value (so all four when all four are
\* sent), and no other provider field.
C8_FourFieldsOfObject ==
    \A i \in Invs :
        (Done(i) /\ Answered(i) /\ Ok(depositAnswer[i].status)
            /\ depositAnswer[i].raw.kind = "object") =>
          LET d == depositAnswer[i].raw.obj IN
          /\ response[i].statusCode = 200
          /\ response[i].body.kind = "json"
          /\ DOMAIN response[i].body.doc = FourFields \cap DOMAIN d
          /\ \A k \in FourFields \cap DOMAIN d : response[i].body.doc[k] = d[k]

C8_Witness ==
    \E i \in Invs :
        /\ Done(i)
        /\ depositAnswer[i].status = 201
        /\ "fee" \in DOMAIN depositAnswer[i].raw.obj
        /\ response[i].statusCode = 200
        /\ DOMAIN response[i].body.doc = FourFields

\* C9: every exception raised while a POST is processed ends in a 500 whose
\* JSON body has error and details: an unparseable request body, missing
\* credentials, a login that fails, is rejected or brings no token, a deposit
\* that fails or whose answer is not JSON.
C9_ExceptionsBecome500 ==
    \A i \in Invs :
        LET r500 == /\ Done(i)
                    /\ response[i].statusCode = 500
                    /\ IsJsonWith(response[i].body, {"error", "details"})
                    /\ response[i].body.doc.details = thrown[i]
        IN
        /\ thrown[i] # Undef => r500
        /\ (event[i].httpMethod = "POST" /\ event[i].body.kind = "text") => r500
        /\ (cold[i] /\ ~CredsPresent) => r500
        /\ (logins[i] = 1 /\ Done(i) /\ loginToken[i] = Null) => r500
        /\ (deposits[i] = 1 /\ Done(i) /\ ~Answered(i)) => r500
        /\ (Answered(i) /\ depositAnswer[i].raw.kind = "text") => r500

C9_Witness ==
    \E i, j \in Invs :
        /\ Done(i) /\ deposits[i] = 1 /\ ~Answered(i)
        /\ thrown[i] = MsgDepositNet
        /\ response[i].statusCode = 500
        /\ Done(j) /\ logins[j] = 1 /\ loginToken[j] = Null
        /\ response[j].statusCode = 500

\* the login of i is answered with a token in this step
LoginSucceeds(i) == pc[i] = "login" /\ pc'[i] = "authenticated"

\* C10: invocations that interleave on a cold cache each issue a login of
\* their own, each successful login overwrites the cache with its own token
\* and expiry, and nothing else writes the cache, so it holds the token of
\* the login processed last; every deposit request carries a token that a
\* successful login returned, the invocation's own when it logged in.
C10_LastWriteWins ==
    [][/\ \A i \in Invs :
            /\ LoginSucceeds(i) =>
                  /\ cachedToken' = loginToken'[i]
                  /\ loginToken'[i] \notin Falsy
                  /\ token'[i] = loginToken'[i]
                  /\ tokenExpiry' = now + 55
            /\ (cold'[i] /\ CredsPresent) => logins'[i] = 1
            /\ deposits'[i] > 0 =>
                  /\ bearer'[i] \notin Falsy
                  /\ \E j \in Invs : bearer'[i] = loginToken'[j]
                  /\ cold'[i] => bearer'[i] = loginToken'[i]
       /\ (cachedToken' # cachedToken \/ tokenExpiry' # tokenExpiry) =>
            \E i \in Invs : LoginSucceeds(i)
      ]_vars

C10_Witness ==
    \E i, j \in Invs :
        /\ now = 0
        /\ cold[i] /\ cold[j]
        /\ loginToken[i] \notin Falsy /\ loginToken[j] \notin Falsy
        /\ loginToken[i] # loginToken[j]
        /\ deposits[i] = 1 /\ deposits[j] = 1
        /\ cachedToken = loginToken[j]
        /\ bearer[i] = loginToken[i] /\ bearer[j] = loginToken[j]

\* the login answer processed in this step is rejected by authenticate():
\* a non-success status, or a body with neither token field
AnswerRejected(ans) ==
    \/ ans.status < 200
    \/ ans.status > 299
    \/ ans.raw.kind # "object"
    \/ /\ Get(ans.raw.obj, "token") \in Falsy
       /\ Get(ans.raw.obj, "access_token") \in Falsy

\* the login of i is answered in this step
LoginAnswered(i) == pc[i] = "login" /\ loginAnswer' # NoAnswer /\ pc'[i] # "login"

\* C11: when authentication fails for a valid POST (credentials missing,
\* login answered with a non-success status or without a token field) the
\* invocation returns 500 and issues no deposit request, then or later.
C11_AuthFailureIs500 ==
    [][\A i \in Invs :
        /\ (StartsValid(i) /\ ~Fresh /\ ~CredsPresent) =>
              /\ pc'[i] = "done"
              /\ response'[i].statusCode = 500
              /\ deposits'[i] = 0
        /\ (LoginAnswered(i) /\ AnswerRejected(loginAnswer')) =>
              /\ pc'[i] = "done"
              /\ response'[i].statusCode = 500
              /\ deposits'[i] = 0
        /\ (pc[i] = "done" /\ response[i].statusCode = 500) =>
              /\ pc'[i] = "done"
              /\ deposits'[i] = deposits[i]
      ]_vars

C11_Witness ==
    \E i, j \in Invs :
        /\ Done(i) /\ thrown[i] = MsgNoToken
        /\ response[i].statusCode = 500 /\ deposits[i] = 0
        /\ Done(j) /\ thrown[j] = MsgAuthFail
        /\ response[j].statusCode = 500 /\ deposits[j] = 0

\* C12: with a credential missing authenticate() fails without issuing a
\* login request, and only invocations that reach authenticate() see the
\* failure: a bad method still gets its 405 and an incomplete body its 400,
\* the responses they get when the credentials are present.
C12_MissingCredsOnlyAtAuth ==
    \A i \in Invs :
        /\ ~CredsPresent =>
              /\ logins[i] = 0
              /\ deposits[i] = 0
              /\ cold[i] =>
                    /\ Done(i)
                    /\ response[i].statusCode = 500
                    /\ response[i].body.doc.details = MsgNoCreds
        /\ thrown[i] = MsgNoCreds => ValidPost(event[i]) /\ cold[i] /\ ~CredsPresent
        /\ (Done(i) /\ event[i].httpMethod # "POST") =>
              /\ response[i].statusCode = 405
              /\ response[i].body.doc = [error |-> MsgMethod]
        /\ (Done(i) /\ event[i].httpMethod = "POST" /\ event[i].body.kind = "object"
                /\ ~ValidPost(event[i])) =>
              /\ response[i].statusCode = 400
              /\ response[i].body.doc = [error |-> MsgIncomplete]

C12_Witness ==
    \E i, j \in Invs :
        /\ ~CredsPresent
        /\ CLIENT_ID \notin Falsy
        /\ Done(i) /\ thrown[i] = MsgNoCreds /\ logins[i] = 0
        /\ Done(j) /\ response[j].statusCode = 400

\* C13: a deposit answer that is not JSON ends in 500 whatever its HTTP
\* status; a non-success status is forwarded only for a body that parsed.
C13_ParseBeforeStatus ==
    \A i \in Invs :
        (Done(i) /\ Answered(i)) =>
          /\ depositAnswer[i].raw.kind = "text" =>
                /\ response[i].statusCode = 500
                /\ response[i].body.doc.error = MsgInternal
                /\ thrown[i] \in {MsgNotJson, MsgBodyUsed}
          /\ (response[i].statusCode = depositAnswer[i].status
                /\ (depositAnswer[i].status < 200 \/ depositAnswer[i].status > 299)) =>
                depositAnswer[i].raw.kind = "object"

C13_Witness ==
    \E i, j \in Invs :
        /\ Done(i) /\ depositAnswer[i] = Answer(502, TextRaw)
        /\ response[i].statusCode = 500
        /\ Done(j) /\ depositAnswer[j] = Answer(200, TextRaw)
        /\ response[j].statusCode = 500

\* C14: an invocation issues at most one login request and at most one
\* deposit request, and none once it has returned, whatever failed.
C14_NoRetries ==
    [][\A i \in Invs :
        /\ logins'[i] <= 1
        /\ deposits'[i] <= 1
        /\ pc[i] = "done" =>
              /\ pc'[i] = "done"
              /\ logins'[i] = logins[i]
              /\ deposits'[i] = deposits[i]
        /\ (pc[i] \in {"login", "authenticated", "deposit"}) => logins'[i] = logins[i]
        /\ pc[i] = "deposit" => deposits'[i] = deposits[i]
      ]_vars

C14_Witness ==
    \E i, j \in Invs :
        /\ Done(i) /\ thrown[i] = MsgLoginNet /\ logins[i] = 1 /\ deposits[i] = 0
        /\ Done(j) /\ thrown[j] = MsgDepositNet /\ logins[j] = 1 /\ deposits[j] = 1

\* C15: a successful login takes the token from the field token when that is
\* present and non-empty, otherwise from access_token, fails when neither is
\* there, and otherwise stores the token with expiry now + 55 minutes and
\* returns the stored token.
C15_TokenFieldOrder ==
    [][\A i \in Invs :
        (LoginAnswered(i) /\ loginAnswer'.status >= 200 /\ loginAnswer'.status <= 299
            /\ loginAnswer'.raw.kind = "object") =>
          LET d == loginAnswer'.raw.obj
              t == IF "token" \in DOMAIN d /\ d.token # "\"\"" THEN d.token
                   ELSE IF "access_token" \in DOMAIN d THEN d.access_token
                   ELSE Undef
          IN
          IF t = Undef
          THEN /\ pc'[i] = "done"
               /\ response'[i].statusCode = 500
               /\ response'[i].body.doc.details = MsgNoToken
               /\ cachedToken' = cachedToken
               /\ tokenExpiry' = tokenExpiry
          ELSE /\ pc'[i] = "authenticated"
               /\ cachedToken' = t
               /\ tokenExpiry' = now + 55
               /\ token'[i] = t
      ]_vars

C15_Witness ==
    \E i \in Invs :
        /\ pc[i] = "authenticated"
        /\ loginAnswer.status = 200
        /\ Get(loginAnswer.raw.obj, "token") = "\"\""
        /\ cachedToken = loginAnswer.raw.obj.access_token
        /\ token[i] = cachedToken
        /\ now > 0
        /\ tokenExpiry = now + 55

Started(i) == pc[i] \in {"login", "authenticated", "deposit"}

\* C16: when every outbound call settles, every invocation that was started
\* returns, it returns once (its response never changes afterwards), and
\* the body of the response is a JSON document.
C16_ReturnsOneJsonResponse ==
    /\ \A i \in Invs : Started(i) ~> Done(i)
    /\ [](\A i \in Invs :
            Done(i) => response[i].statusCode # 0 /\ response[i].body.kind = "json")
    /\ [][\A i \in Invs :
            /\ Done(i) => Done(i)' /\ response'[i] = response[i]
            /\ ~Done(i) => response[i] = NoResponse]_vars

C16_Witness ==
    \E i, j \in Invs :
        /\ Done(i) /\ deposits[i] = 1 /\ response[i].statusCode = 200
        /\ response[i].body.kind = "json"
        /\ Done(j) /\ event[j].httpMethod = "OPTIONS"
        /\ response[j].body.kind = "json"

CacheUnchanged == cachedToken' = cachedToken /\ tokenExpiry' = tokenExpiry

\* C17: an authentication attempt that fails (credentials missing, login
\* fetch rejected, non-success status, no token in the answer) leaves
\* cachedToken and tokenExpiry as they were; only a successful login writes
\* the cache.
C17_FailedAuthKeepsCache ==
    [][/\ \A i \in Invs :
            /\ (StartsValid(i) /\ ~Fresh /\ ~CredsPresent) => CacheUnchanged
            /\ (LoginAnswered(i) /\ AnswerRejected(loginAnswer')) => CacheUnchanged
            /\ (pc[i] = "login" /\ pc'[i] = "done") => CacheUnchanged
            /\ (pc[i] = "idle" /\ pc'[i] # "idle") => CacheUnchanged
       /\ ~CacheUnchanged =>
            \E i \in Invs :
                /\ LoginAnswered(i)
                /\ ~AnswerRejected(loginAnswer')
                /\ pc'[i] = "authenticated"
      ]_vars

C17_Witness ==
    \E i, j \in Invs :
        /\ loginToken[i] \notin Falsy
        /\ cachedToken = loginToken[i]
        /\ tokenExpiry < now + 55
        /\ Done(j) /\ logins[j] = 1 /\ cold[j]
        /\ thrown[j] \in {MsgLoginNet, MsgAuthFail, MsgNoToken}

CachePaired == (cachedToken = Null) <=> (tokenExpiry = NoExpiry)

\* C18: cachedToken and tokenExpiry are both unset or both set, and they are
\* only written together, by one login, as that login's token and the time
\* of the write plus 55 minutes: a token is never left with the expiry of
\* another login.
C18_TokenAndExpiryTogether ==
    [][/\ CachePaired
       /\ CachePaired'
       /\ \A i \in Invs :
            (pc[i] = "login" /\ loginToken'[i] # loginToken[i]) =>
                /\ loginToken'[i] \notin Falsy
                /\ cachedToken' = loginToken'[i]
                /\ tokenExpiry' = now' + 55
       /\ ~CacheUnchanged =>
            \E i \in Invs :
                /\ pc[i] = "login"
                /\ loginToken'[i] # loginToken[i]
                /\ cachedToken' = loginToken'[i]
                /\ tokenExpiry' = now' + 55
      ]_vars

C18_Witness ==
    \E i, j \in Invs :
        /\ i # j
        /\ loginToken[i] \notin Falsy /\ loginToken[j] \notin Falsy
        /\ loginAnswer # NoAnswer
        /\ pc[j] = "authenticated"
        /\ cachedToken = loginToken[j]
        /\ cachedToken # loginToken[i]
        /\ now > 0
        /\ tokenExpiry = now + 55

\* C19: the token an invocation puts on its deposit request is the token it
\* read from the cache while that token was unexpired or, when it logged in,
\* the token of its own login, also when another invocation has written the
\* cache in between.
C19_OwnTokenOnDeposit ==
    [][\A i \in Invs :
        /\ (StartsValid(i) /\ pc'[i] = "authenticated") =>
              /\ token'[i] = cachedToken
              /\ cachedToken \notin Falsy
              /\ now < tokenExpiry
              /\ logins'[i] = 0
        /\ (pc[i] = "login" /\ pc'[i] = "authenticated") =>
              /\ loginToken'[i] \in
                    {Get(loginAnswer'.raw.obj, "token"),
                     Get(loginAnswer'.raw.obj, "access_token")}
              /\ token'[i] = loginToken'[i]
        /\ (pc[i] = "authenticated" /\ pc'[i] # "authenticated") =>
              /\ deposits'[i] = 1
              /\ bearer'[i] = token[i]
              /\ logins[i] = 1 => bearer'[i] = loginToken[i]
        /\ deposits[i] > 0 => bearer'[i] = bearer[i]
      ]_vars

C19_Witness ==
    \E i, j \in Invs :
        /\ i # j
        /\ logins[i] = 1 /\ logins[j] = 1
        /\ pc[i] = "deposit"
        /\ bearer[i] = loginToken[i]
        /\ cachedToken = loginToken[j]
        /\ cachedToken # bearer[i]
        /\ cachedToken \notin Falsy
        /\ now < tokenExpiry

\* C20: for a POST whose body parses as JSON the 400 branch is taken exactly
\* when one of amount, external_id, payer is falsy (absent, null, false, 0,
\* the empty string); a body with three truthy values goes on to
\* authenticate().
C20_400IffFalsyField ==
    [][\A i \in Invs :
        (pc[i] = "idle" /\ pc'[i] # "idle" /\ event'[i].httpMethod = "POST"
            /\ event'[i].body.kind \in {"null", "object"}) =>
          LET b == event'[i].body.obj
              falsy == \E k \in {"amount", "external_id", "payer"} : Get(b, k) \in Falsy
          IN
          /\ falsy <=> (pc'[i] = "done" /\ response'[i].statusCode = 400)
          /\ falsy => logins'[i] = 0 /\ ~cold'[i] /\ token'[i] = Null
          /\ ~falsy => \/ pc'[i] \in {"login", "authenticated"}
                       \/ thrown'[i] = MsgNoCreds
      ]_vars
====
